---- MODULE Spec2Model ----
(***************************************************************************)
(* Model of bundle-uri.c: the bundle list and its key-value parser         *)
(* (bundle_list_update), the remote-helper download                        *)
(* (download_https_uri_to_file), the ref translator (unbundle_from_file)   *)
(* and the orchestrator (fetch_bundle_uri).                                *)
(*                                                                         *)
(* Strings.  A C string that the code takes apart is modelled by its       *)
(* pieces: a config key is the sequence of its parts between '.', a ref    *)
(* name or ref prefix is the sequence of its parts between '/', (so        *)
(* "refs/bundle/" is <<"refs","bundle","">>), and a config value is the    *)
(* sequence of its characters.                                             *)
(***************************************************************************)
EXTENDS Integers, Sequences, FiniteSets, TLC

VARIABLES
    list,        \* struct bundle_list: version, mode, bundles (the hashmap)
    lastKey,     \* key of the latest bundle_list_update call
    lastValue,   \* value of the latest bundle_list_update call
    lastResult,  \* its return value (-1 before the first call)
    prevList,    \* the list as it was when that call was made
    lastUri,     \* per descriptor id, the value of the latest bundle.<id>.uri
    pc,          \* position of the process inside fetch_bundle_uri
    uri,         \* the uri argument of the call
    resource,    \* what the uri holds
    tmp,         \* what is at the temp path (filename.buf)
    refs,        \* the ref store
    config,      \* the entries under log.excludedecoration: value -> count
    result,      \* fetch_bundle_uri's result
    dl,          \* download_https_uri_to_file's locals, and the helper
    tr,          \* unbundle_from_file's locals
    refs0,       \* the ref store when the call was made
    config0,     \* the configuration when the call was made
    attempts,    \* the update_ref calls of this fetch, in order
    stage,       \* the step that decided the result of this fetch
    others,      \* writes of another writer to the ref store in this fetch
    fetches,     \* fetch_bundle_uri calls made
    prevOkConfig \* the configuration left by the previous successful fetch

listVars == <<list, lastKey, lastValue, lastResult, prevList, lastUri>>

fetchVars == <<pc, uri, resource, tmp, refs, config, result, dl, tr, refs0,
               config0, attempts, stage, others, fetches, prevOkConfig>>

vars == <<listVars, fetchVars>>

----------------------------------------------------------------------------
(* C strings *)

NULL == <<"NULL">>

\* skip_prefix(str, prefix) for a prefix that ends in the separator: the
\* parts of the prefix before its final separator must be the first parts of
\* str, and str must go on after them.
HasPrefix(str, prefix) ==
    /\ Len(str) >= Len(prefix)
    /\ \A i \in 1..(Len(prefix) - 1) : str[i] = prefix[i]

\* what skip_prefix leaves in *out
AfterPrefix(str, prefix) == SubSeq(str, Len(prefix), Len(str))

\* strbuf_setlen(prefix_len) followed by strbuf_addstr(rest)
Concat(prefix, rest) == SubSeq(prefix, 1, Len(prefix) - 1) \o rest

Digits == <<"0", "1", "2", "3", "4", "5", "6", "7", "8", "9">>

IsDigit(c) == \E i \in 1..10 : Digits[i] = c

DigitVal(c) == (CHOOSE i \in 1..10 : Digits[i] = c) - 1

IsSpace(c) == c \in {" ", "\t", "\n"}

RECURSIVE atoi_digits(_, _)
atoi_digits(s, acc) ==
    IF s = <<>> \/ ~IsDigit(Head(s)) THEN acc
    ELSE atoi_digits(Tail(s), 10 * acc + DigitVal(Head(s)))

RECURSIVE atoi(_)
\* atoi(3): leading white space, an optional sign, then the leading digits
atoi(s) ==
    IF s = <<>> THEN 0
    ELSE IF IsSpace(Head(s)) THEN atoi(Tail(s))
    ELSE IF Head(s) = "-" THEN 0 - atoi_digits(Tail(s), 0)
    ELSE IF Head(s) = "+" THEN atoi_digits(Tail(s), 0)
    ELSE atoi_digits(s, 0)

----------------------------------------------------------------------------
(* The bundle list *)

BUNDLE_MODE_ALL == "BUNDLE_MODE_ALL"
BUNDLE_MODE_ANY == "BUNDLE_MODE_ANY"

compare_bundles_NeverEqual(e1, e2) == 1

\* compare_bundles with keydata = NULL: strcmp of the two ids
compare_bundles(e1, e2) == IF e1.id = e2.id THEN 0 ELSE 1

init_bundle_list ==
    [version |-> 1, mode |-> BUNDLE_MODE_ALL, bundles |-> <<>>]

\* hashmap_get_entry: index of the first entry that compares equal, 0 if none
hashmap_get_entry(bundles, lookup) ==
    IF \E i \in 1..Len(bundles) : compare_bundles(bundles[i], lookup) = 0
    THEN CHOOSE i \in 1..Len(bundles) :
            /\ compare_bundles(bundles[i], lookup) = 0
            /\ \A j \in 1..(i - 1) : compare_bundles(bundles[j], lookup) # 0
    ELSE 0

\* what for_all_bundles_in_list lets a visitor see: each descriptor
for_all_bundles_in_list(l) ==
    {l.bundles[i] : i \in 1..Len(l.bundles)}

KeyPrefix == <<"bundle", "">>

\* mutation of bundle_list_update: the descriptor is looked up or created
\* before the key is checked for the reserved id and the missing '.'
bundle_list_update_CreateFirst(key, value, l) ==
    IF ~HasPrefix(key, KeyPrefix) THEN [list |-> l, result |-> 1]
    ELSE
    LET pkey == AfterPrefix(key, KeyPrefix)
        lookup == [id |-> pkey[1], uri |-> NULL]
        found == hashmap_get_entry(l.bundles, lookup)
        created == IF found = 0
                   THEN [l EXCEPT !.bundles = Append(@, lookup)]
                   ELSE l
    IN  IF pkey = <<"list", "version">> THEN
            IF atoi(value) # 1 THEN [list |-> created, result |-> 1]
            ELSE [list |-> [l EXCEPT !.version = atoi(value)], result |-> 0]
        ELSE IF pkey = <<"list", "mode">> THEN
            IF value = <<"a", "l", "l">>
            THEN [list |-> [l EXCEPT !.mode = BUNDLE_MODE_ALL], result |-> 0]
            ELSE IF value = <<"a", "n", "y">>
            THEN [list |-> [l EXCEPT !.mode = BUNDLE_MODE_ANY], result |-> 0]
            ELSE [list |-> created, result |-> 1]
        ELSE IF Len(pkey) < 2 THEN [list |-> created, result |-> 1]
        ELSE IF pkey[1] = "list" THEN [list |-> created, result |-> 1]
        ELSE [list |-> created, result |-> 0]

\* mutation of bundle_list_update: a uri is set only while the descriptor has
\* none
bundle_list_update_FirstWins(key, value, l) ==
    IF ~HasPrefix(key, KeyPrefix) THEN [list |-> l, result |-> 1]
    ELSE
    LET pkey == AfterPrefix(key, KeyPrefix) IN
        IF pkey = <<"list", "version">> THEN
            IF atoi(value) # 1 THEN [list |-> l, result |-> 1]
            ELSE [list |-> [l EXCEPT !.version = atoi(value)], result |-> 0]
        ELSE IF pkey = <<"list", "mode">> THEN
            IF value = <<"a", "l", "l">>
            THEN [list |-> [l EXCEPT !.mode = BUNDLE_MODE_ALL], result |-> 0]
            ELSE IF value = <<"a", "n", "y">>
            THEN [list |-> [l EXCEPT !.mode = BUNDLE_MODE_ANY], result |-> 0]
            ELSE [list |-> l, result |-> 1]
        ELSE IF Len(pkey) < 2 THEN [list |-> l, result |-> 1]
        ELSE IF pkey[1] = "list" THEN [list |-> l, result |-> 1]
        ELSE
        LET lookup == [id |-> pkey[1], uri |-> NULL]
            found == hashmap_get_entry(l.bundles, lookup)
            bundles1 == IF found = 0 THEN Append(l.bundles, lookup)
                        ELSE l.bundles
            at == IF found = 0 THEN Len(bundles1) ELSE found
        IN  IF Tail(pkey) = <<"uri">> /\ bundles1[at].uri = NULL
            THEN [list |-> [l EXCEPT !.bundles =
                                [bundles1 EXCEPT ![at].uri = value]],
                  result |-> 0]
            ELSE [list |-> [l EXCEPT !.bundles = bundles1], result |-> 0]

\* mutation of bundle_list_update: the value is stored as the uri whatever
\* the field is
bundle_list_update_AnyFieldIsUri(key, value, l) ==
    IF ~HasPrefix(key, KeyPrefix) THEN [list |-> l, result |-> 1]
    ELSE
    LET pkey == AfterPrefix(key, KeyPrefix) IN
        IF pkey = <<"list", "version">> THEN
            IF atoi(value) # 1 THEN [list |-> l, result |-> 1]
            ELSE [list |-> [l EXCEPT !.version = atoi(value)], result |-> 0]
        ELSE IF pkey = <<"list", "mode">> THEN
            IF value = <<"a", "l", "l">>
            THEN [list |-> [l EXCEPT !.mode = BUNDLE_MODE_ALL], result |-> 0]
            ELSE IF value = <<"a", "n", "y">>
            THEN [list |-> [l EXCEPT !.mode = BUNDLE_MODE_ANY], result |-> 0]
            ELSE [list |-> l, result |-> 1]
        ELSE IF Len(pkey) < 2 THEN [list |-> l, result |-> 1]
        ELSE IF pkey[1] = "list" THEN [list |-> l, result |-> 1]
        ELSE
        LET lookup == [id |-> pkey[1], uri |-> NULL]
            found == hashmap_get_entry(l.bundles, lookup)
            bundles1 == IF found = 0 THEN Append(l.bundles, lookup)
                        ELSE l.bundles
            at == IF found = 0 THEN Len(bundles1) ELSE found
        IN  [list |-> [l EXCEPT !.bundles =
                            [bundles1 EXCEPT ![at].uri = value]],
             result |-> 0]

\* mutation of bundle_list_update: the descriptor is made anew on every call
\* and takes the place of the one the list holds
bundle_list_update_Recreate(key, value, l) ==
    IF ~HasPrefix(key, KeyPrefix) THEN [list |-> l, result |-> 1]
    ELSE
    LET pkey == AfterPrefix(key, KeyPrefix) IN
        IF pkey = <<"list", "version">> THEN
            IF atoi(value) # 1 THEN [list |-> l, result |-> 1]
            ELSE [list |-> [l EXCEPT !.version = atoi(value)], result |-> 0]
        ELSE IF pkey = <<"list", "mode">> THEN
            IF value = <<"a", "l", "l">>
            THEN [list |-> [l EXCEPT !.mode = BUNDLE_MODE_ALL], result |-> 0]
            ELSE IF value = <<"a", "n", "y">>
            THEN [list |-> [l EXCEPT !.mode = BUNDLE_MODE_ANY], result |-> 0]
            ELSE [list |-> l, result |-> 1]
        ELSE IF Len(pkey) < 2 THEN [list |-> l, result |-> 1]
        ELSE IF pkey[1] = "list" THEN [list |-> l, result |-> 1]
        ELSE
        LET lookup == [id |-> pkey[1], uri |-> NULL]
            found == hashmap_get_entry(l.bundles, lookup)
            bundles1 == IF found = 0 THEN Append(l.bundles, lookup)
                        ELSE [l.bundles EXCEPT ![found] = lookup]
            at == IF found = 0 THEN Len(bundles1) ELSE found
        IN  IF Tail(pkey) = <<"uri">>
            THEN [list |-> [l EXCEPT !.bundles =
                                [bundles1 EXCEPT ![at].uri = value]],
                  result |-> 0]
            ELSE [list |-> [l EXCEPT !.bundles = bundles1], result |-> 0]

\* bundle_list_update(key, value, list): the list after the call and the
\* value returned
bundle_list_update(key, value, l) ==
    IF ~HasPrefix(key, KeyPrefix) THEN [list |-> l, result |-> 1]
    ELSE
    LET pkey == AfterPrefix(key, KeyPrefix) IN
        IF pkey = <<"list", "version">> THEN
            LET version == atoi(value) IN
            IF version # 1 THEN [list |-> l, result |-> 1]
            ELSE [list |-> [l EXCEPT !.version = version], result |-> 0]
        ELSE IF pkey = <<"list", "mode">> THEN
            IF value = <<"a", "l", "l">>
            THEN [list |-> [l EXCEPT !.mode = BUNDLE_MODE_ALL], result |-> 0]
            ELSE IF value = <<"a", "n", "y">>
            THEN [list |-> [l EXCEPT !.mode = BUNDLE_MODE_ANY], result |-> 0]
            ELSE [list |-> l, result |-> 1]
        \* dot = strchr(pkey, '.')
        ELSE IF Len(pkey) < 2 THEN [list |-> l, result |-> 1]
        \* dot - pkey == 4 && !strncmp(pkey, "list", 4)
        ELSE IF pkey[1] = "list" THEN [list |-> l, result |-> 1]
        ELSE
        LET id == pkey[1]
            field == Tail(pkey)
            lookup == [id |-> id, uri |-> NULL]
            found == hashmap_get_entry(l.bundles, lookup)
            \* CALLOC_ARRAY + hashmap_add when there is no such entry
            bundles1 == IF found = 0 THEN Append(l.bundles, lookup)
                        ELSE l.bundles
            at == IF found = 0 THEN Len(bundles1) ELSE found
        IN  IF field = <<"uri">>
            THEN [list |-> [l EXCEPT !.bundles =
                                [bundles1 EXCEPT ![at].uri = value]],
                  result |-> 0]
            ELSE [list |-> [l EXCEPT !.bundles = bundles1], result |-> 0]

Keys ==
    { <<"bundle", "list", "version">>,
      <<"bundle", "list", "mode">>,
      <<"bundle", "list", "uri">>,
      <<"bundle", "list">>,
      <<"bundle", "b1", "uri">>,
      <<"bundle", "b2", "uri">>,
      <<"bundle", "b1", "hint">>,
      <<"bundle", "b1", "uri", "x">>,
      <<"bundle", "nodot">>,
      <<"other", "b1", "uri">> }

\* the ids of the keys of the form bundle.<id>.uri, <id> a descriptor id
\* (not the reserved "list")
UriKeyIds ==
    { k[2] : k \in { q \in Keys : /\ Len(q) = 3
                                  /\ q[1] = "bundle"
                                  /\ q[3] = "uri"
                                  /\ q[2] # "list" } }

Values ==
    { <<"1">>, <<"2">>, <<"1", "x">>, <<" ", "1">>,
      <<"a", "l", "l">>, <<"a", "n", "y">>, <<"m", "a", "y", "b", "e">>,
      <<"u">> }


----------------------------------------------------------------------------
(* Bounds of the fetch model *)

MaxRefs == 2       \* refs a bundle header declares
MaxLines == 2      \* lines the helper answers to "capabilities"
MaxFetches == 2    \* fetch_bundle_uri calls in a run
MaxOther == 1      \* writes of another writer to the ref store during a call
MaxDup == 2        \* entries of one value under the key at the start

----------------------------------------------------------------------------
(* The ref store.  read_ref and update_ref are refs.c, outside this file:   *)
(* update_ref writes the new value unless an old value is given and the    *)
(* ref does not hold it (a NULL old_oid asks for no check), or the store   *)
(* cannot take the write; what it does with a failure is chosen by the     *)
(* caller's action_on_err.                                                  *)

Oids == {"X", "Y"}

NoOid == "none"

NullPtr == "NULL"

UPDATE_REFS_MSG_ON_ERR == "UPDATE_REFS_MSG_ON_ERR"
UPDATE_REFS_DIE_ON_ERR == "UPDATE_REFS_DIE_ON_ERR"

RefsHeads == <<"refs", "heads", "">>

bundle_ref_prefix_Heads == <<"refs", "heads", "">>

\* strbuf_addstr(&bundle_ref, "refs/bundles/")
bundle_ref_prefix == <<"refs", "bundles", "">>

DeclNames ==
    { <<"refs", "heads", "main">>,
      <<"refs", "heads", "dev">>,
      <<"refs", "tags", "v1">> }

BundleRefNames ==
    { <<"refs", "bundles", "main">>, <<"refs", "bundles", "dev">> }

RefNames == DeclNames \cup BundleRefNames

read_ref(store, refname) ==
    [ret |-> IF store[refname] = NoOid THEN -1 ELSE 0, oid |-> store[refname]]

update_ref(store, refname, new_oid, old_oid, onerr, storeOk) ==
    LET mismatch == old_oid # NullPtr /\ store[refname] # old_oid
        failed == mismatch \/ ~storeOk
    IN  IF failed
        THEN [refs |-> store, ret |-> 1,
              died |-> (onerr = UPDATE_REFS_DIE_ON_ERR)]
        ELSE [refs |-> [store EXCEPT ![refname] = new_oid], ret |-> 0,
              died |-> FALSE]

\* the old_oid argument of the update_ref call
old_oid_arg_NullOid(has_old, old_oid) == IF has_old THEN old_oid ELSE NoOid

old_oid_arg(has_old, old_oid) == IF has_old THEN old_oid ELSE NullPtr

\* the action_on_err argument of the update_ref call
onerr_arg_Die == UPDATE_REFS_DIE_ON_ERR

onerr_arg == UPDATE_REFS_MSG_ON_ERR

\* the oid argument of the update_ref call: refname->util
new_oid_arg_Old(item, has_old, old_oid) == IF has_old THEN old_oid ELSE item.oid

new_oid_arg(item, has_old, old_oid) == item.oid

----------------------------------------------------------------------------
(* The configuration store.  git_config_set_multivar_gently is config.c,   *)
(* outside this file: the entries of the key that match the pattern (as a  *)
(* whole value with CONFIG_FLAGS_FIXED_VALUE, else as a regular expression *)
(* found anywhere in the value) are replaced by one entry of the value;    *)
(* with no match an entry is added; several matches without               *)
(* CONFIG_FLAGS_MULTI_REPLACE are an error and nothing is set.             *)

CONFIG_FLAGS_FIXED_VALUE == "CONFIG_FLAGS_FIXED_VALUE"
CONFIG_FLAGS_MULTI_REPLACE == "CONFIG_FLAGS_MULTI_REPLACE"

ConfigValues ==
    { <<"refs", "bundle", "">>, <<"refs", "bundle", "x">> }

\* pattern, which ends in '/', occurs in value
Occurs(pattern, value) ==
    \E off \in 0..Len(value) :
        /\ off + Len(pattern) <= Len(value)
        /\ \A i \in 1..(Len(pattern) - 1) : value[off + i] = pattern[i]

ConfigMatches(value, pattern, flags) ==
    IF CONFIG_FLAGS_FIXED_VALUE \in flags THEN value = pattern
    ELSE Occurs(pattern, value)

git_config_set_multivar_gently(cfg, value, pattern, flags) ==
    LET M == {v \in DOMAIN cfg : ConfigMatches(v, pattern, flags) /\ cfg[v] > 0}
        several == \/ \E v \in M : cfg[v] > 1
                   \/ \E v, w \in M : v # w
    IN  IF several /\ CONFIG_FLAGS_MULTI_REPLACE \notin flags THEN cfg
        ELSE [v \in DOMAIN cfg |->
                (IF v \in M THEN 0 ELSE cfg[v]) + (IF v = value THEN 1 ELSE 0)]

ConfigUpsert_Append(cfg) ==
    [cfg EXCEPT ![<<"refs", "bundle", "">>] = @ + 1]

\* fetch_bundle_uri's call of git_config_set_multivar_gently
ConfigUpsert(cfg) ==
    git_config_set_multivar_gently(cfg,
        <<"refs", "bundle", "">>, <<"refs", "bundle", "">>,
        {CONFIG_FLAGS_FIXED_VALUE, CONFIG_FLAGS_MULTI_REPLACE})

----------------------------------------------------------------------------
(* What a uri can hold, and the uris *)

\* the object each ref of a bundle points at
DeclOid(name) == IF name = <<"refs", "heads", "dev">> THEN "Y" ELSE "X"

\* header.references: the declared refs, each name once
HeaderRefs ==
    { [i \in 1..Len(s) |-> [name |-> s[i], oid |-> DeclOid(s[i])]] :
        s \in { t \in UNION { [1..n -> DeclNames] : n \in 0..MaxRefs } :
                  \A i, j \in 1..Len(t) : i # j => t[i] # t[j] } }

Unknown == [kind |-> "unknown", refs |-> <<>>, unpack_ok |-> FALSE]

Resources ==
    { [kind |-> "missing", refs |-> <<>>, unpack_ok |-> FALSE],
      [kind |-> "garbage", refs |-> <<>>, unpack_ok |-> FALSE] }
    \cup [kind : {"bundle"}, refs : HeaderRefs, unpack_ok : BOOLEAN]

\* uris, as their parts between '/'
URIs ==
    { <<"https:", "", "h", "x">>,
      <<"file:", "", "", "tmp", "x">> }

\* skip_prefix(uri, "https:") || skip_prefix(uri, "http:"): the uris of the
\* model hold the scheme as their first part
IsHttp(u) == Len(u) >= 1 /\ u[1] \in {"https:", "http:"}

\* bundle.c's is_bundle and read_bundle_header, on the file at the temp path
is_bundle(t, r) == t = "full" /\ r.kind = "bundle"

\* the lines a helper may answer
Lines == {"get", "fetch", ""}

AdvSeqs == UNION { [1..n -> Lines] : n \in 0..MaxLines }

\* strbuf_getline's line is empty
LineIsBlank(line) == line = ""

LineIsGet_AnyToken(line) == line # ""

\* !strcmp(line.buf, "get")
LineIsGet(line) == line = "get"

Capabilities == [cmd |-> "capabilities", uri |-> <<>>, file |-> ""]

\* "get %s %s\n\n"
GetCmd(u, file) == [cmd |-> "get", uri |-> u, file |-> file]

TempPath == "bundles/tmp_uri_XXXXXX"

unlink_Keep(t) == t

\* unlink(path): what is at the path afterwards
unlink(t) == "absent"

AfterFinishCommand_IgnoreStatus(code, res) ==
    [ret |-> res, close_out |-> TRUE]

\* if (finish_command(&cp)) return 1;
\* if (child_out) fclose(child_out); return result;
AfterFinishCommand(code, res) ==
    IF code # 0 THEN [ret |-> 1, close_out |-> FALSE]
    ELSE [ret |-> res, close_out |-> TRUE]

DlInit ==
    [child_in |-> "NULL", child_out |-> "NULL", in_fd |-> FALSE,
     inbuf |-> <<>>, pipe |-> <<>>, sent |-> <<>>, outq |-> <<>>,
     hsent |-> <<>>, found_get |-> FALSE, result |-> 0,
     called |-> FALSE, returned |-> FALSE, ret |-> 0,
     hpc |-> "none", hstatus |-> 0, out_open |-> FALSE]

TrInit ==
    [idx |-> 0, has_old |-> FALSE, old_oid |-> NoOid, bundle_ref |-> <<>>,
     rc |-> 0, ran |-> FALSE]

----------------------------------------------------------------------------
(* fetch_bundle_uri's gotos *)

AfterCopy_LabelAboveConfig(res) == IF res # 0 THEN "config" ELSE "is_bundle"

\* if ((result = copy_uri_to_file(...))) goto cleanup;
AfterCopy(res) == IF res # 0 THEN "cleanup" ELSE "is_bundle"

AfterIsBundle_Return(res) == IF res # 0 THEN "done" ELSE "unbundle"

\* if ((result = !is_bundle(...))) goto cleanup;
AfterIsBundle(res) == IF res # 0 THEN "cleanup" ELSE "unbundle"

\* if ((result = unbundle_from_file(...))) goto cleanup;
AfterUnbundleFromFile(res) == IF res # 0 THEN "cleanup" ELSE "config"

\* unbundle_from_file after result = unbundle(...): the result is not
\* looked at before the loop over header.references
AfterUnbundle(rc) == "translate"

----------------------------------------------------------------------------
(* Initial states *)

InitList ==
    /\ list = init_bundle_list
    /\ lastKey = <<>>
    /\ lastValue = <<>>
    /\ lastResult = -1
    /\ prevList = init_bundle_list
    /\ lastUri = [id \in UriKeyIds |-> NULL]

InitRefs ==
    { [n \in RefNames |->
        IF n = <<"refs", "bundles", "main">> THEN b
        ELSE IF n = <<"refs", "heads", "main">> THEN "Y"
        ELSE IF n = <<"refs", "tags", "v1">> THEN "Y"
        ELSE NoOid] : b \in {"Y", NoOid} }

\* the key holds one entry of another value, and up to MaxDup of the value
InitConfigs ==
    { c \in [ConfigValues -> 0..MaxDup] : c[<<"refs", "bundle", "x">>] = 1 }

InitFetch ==
    /\ pc = "idle"
    /\ uri = <<>>
    /\ resource = Unknown
    /\ tmp = "absent"
    /\ refs \in InitRefs
    /\ config \in InitConfigs
    /\ result = 0
    /\ dl = DlInit
    /\ tr = TrInit
    /\ refs0 = refs
    /\ config0 = config
    /\ attempts = <<>>
    /\ stage = "none"
    /\ others = 0
    /\ fetches = 0
    /\ prevOkConfig = [set |-> FALSE, cfg |-> config]

Init == InitList /\ InitFetch

----------------------------------------------------------------------------
(* bundle_list_update *)

Update ==
    /\ \E key \in Keys, value \in Values :
        LET r == bundle_list_update(key, value, list) IN
        /\ list' = r.list
        /\ lastResult' = r.result
        /\ lastKey' = key
        /\ lastValue' = value
        /\ prevList' = list
        /\ lastUri' = IF Len(key) = 3 /\ key[1] = "bundle" /\ key[3] = "uri"
                         /\ key[2] \in UriKeyIds
                      THEN [lastUri EXCEPT ![key[2]] = value]
                      ELSE lastUri
    /\ UNCHANGED fetchVars

----------------------------------------------------------------------------
(* fetch_bundle_uri *)

ghostVars == <<refs0, config0, fetches, prevOkConfig>>

\* a caller calls fetch_bundle_uri(r, uri)
CallFetch ==
    /\ pc = "idle"
    /\ fetches < MaxFetches
    /\ \E u \in URIs : uri' = u
    /\ pc' = "mkstemp"
    /\ result' = 0
    /\ refs0' = refs
    /\ config0' = config
    /\ fetches' = fetches + 1
    /\ UNCHANGED <<resource, tmp, refs, config, dl, tr, attempts, stage,
                   others, prevOkConfig, listVars>>

\* the caller goes on after the call: the locals of the call are gone
Return ==
    /\ pc = "done"
    /\ pc' = "idle"
    /\ uri' = <<>>
    /\ resource' = Unknown
    /\ dl' = DlInit
    /\ tr' = TrInit
    /\ attempts' = <<>>
    /\ stage' = "none"
    /\ others' = 0
    /\ result' = 0
    /\ refs0' = refs
    /\ config0' = config
    /\ prevOkConfig' = IF result = 0 THEN [set |-> TRUE, cfg |-> config]
                       ELSE prevOkConfig
    /\ UNCHANGED <<tmp, refs, config, fetches, listVars>>

\* find_temp_filename: fd = odb_mkstemp(...); if (fd < 0) die(...)
Mkstemp ==
    /\ pc = "mkstemp"
    /\ \E ok \in BOOLEAN :
        IF ok THEN tmp' = "placeholder" /\ pc' = "unlink_tmp"
        ELSE tmp' = tmp /\ pc' = "dead"
    /\ UNCHANGED <<uri, resource, refs, config, result, dl, tr, attempts,
                   stage, others, ghostVars, listVars>>

\* find_temp_filename: close(fd); unlink(name->buf)
UnlinkTmp ==
    /\ pc = "unlink_tmp"
    /\ tmp' = unlink(tmp)
    /\ pc' = "copy"
    /\ UNCHANGED <<uri, resource, refs, config, result, dl, tr, attempts,
                   stage, others, ghostVars, listVars>>

\* copy_uri_to_file: the http(s) branch calls download_https_uri_to_file
CopyHttp ==
    /\ pc = "copy"
    /\ IsHttp(uri)
    /\ pc' = "dl_start"
    /\ dl' = [dl EXCEPT !.called = TRUE]
    /\ UNCHANGED <<uri, resource, tmp, refs, config, result, tr, attempts,
                   stage, others, ghostVars, listVars>>

\* copy_uri_to_file: return !!copy_file(out, file, 0); uri is not read
\* after the copy, and is forgotten
CopyFile ==
    /\ pc = "copy"
    /\ ~IsHttp(uri)
    /\ \E ok \in BOOLEAN, r \in Resources :
        LET res == IF ok /\ r.kind # "missing" THEN 0 ELSE 1 IN
        /\ ok \/ r.refs = <<>>
        /\ resource' = IF res = 0 THEN r ELSE [r EXCEPT !.unpack_ok = FALSE]
        /\ tmp' = IF r.kind = "missing" THEN tmp
                  ELSE IF ok THEN "full" ELSE "partial"
        /\ result' = res
        /\ pc' = AfterCopy(res)
        /\ stage' = IF res # 0 THEN "transport" ELSE stage
    /\ uri' = <<>>
    /\ UNCHANGED <<refs, config, dl, tr, attempts, others,
                   ghostVars, listVars>>

\* download_https_uri_to_file returns v
DlReturn(d, v) ==
    /\ dl' = [d EXCEPT !.returned = TRUE, !.ret = v]
    /\ pc' = "dl_ret"
    /\ UNCHANGED <<result, stage>>

dlFrame == <<uri, resource, refs, config, tr, attempts, others, ghostVars,
             listVars>>

\* copy_uri_to_file: return download_https_uri_to_file(uri, file), and
\* fetch_bundle_uri's result = copy_uri_to_file(...); the locals of the
\* download are gone (the exit status of the helper is kept), and uri is not
\* read after the copy
CopyReturn ==
    /\ pc = "dl_ret"
    /\ result' = dl.ret
    /\ pc' = AfterCopy(dl.ret)
    /\ stage' = IF dl.ret # 0 THEN "transport" ELSE stage
    /\ dl' = [DlInit EXCEPT !.hstatus = dl.hstatus]
    /\ uri' = <<>>
    /\ UNCHANGED <<tmp, resource, refs, config, tr, attempts, others,
                   ghostVars, listVars>>

\* if (start_command(&cp)) return 1;
DlStart ==
    /\ pc = "dl_start"
    /\ \E ok \in BOOLEAN :
        IF ok
        THEN /\ dl' = [dl EXCEPT !.hpc = "wait", !.in_fd = TRUE,
                                  !.out_open = TRUE]
             /\ pc' = "dl_fdopen_in"
             /\ UNCHANGED <<result, stage>>
        ELSE DlReturn(dl, 1)
    /\ UNCHANGED <<tmp, dlFrame>>

\* child_in = fdopen(cp.in, "w")
DlFdopenIn ==
    /\ pc = "dl_fdopen_in"
    /\ \E ok \in BOOLEAN :
        IF ok
        THEN dl' = [dl EXCEPT !.child_in = "open"] /\ pc' = "dl_fdopen_out"
        ELSE dl' = [dl EXCEPT !.result = 1] /\ pc' = "dl_cleanup"
    /\ UNCHANGED <<tmp, result, stage, dlFrame>>

\* child_out = fdopen(cp.out, "r")
DlFdopenOut ==
    /\ pc = "dl_fdopen_out"
    /\ \E ok \in BOOLEAN :
        IF ok
        THEN dl' = [dl EXCEPT !.child_out = "open"] /\ pc' = "dl_caps"
        ELSE dl' = [dl EXCEPT !.result = 1] /\ pc' = "dl_cleanup"
    /\ UNCHANGED <<tmp, result, stage, dlFrame>>

\* fprintf(child_in, "capabilities\n"); fflush(child_in)
DlCaps ==
    /\ pc = "dl_caps"
    /\ dl' = [dl EXCEPT !.sent = Append(@, Capabilities),
                        !.pipe = @ \o dl.inbuf \o <<Capabilities>>,
                        !.inbuf = <<>>]
    /\ pc' = "dl_read"
    /\ UNCHANGED <<tmp, result, stage, dlFrame>>

\* one turn of while (!strbuf_getline(&line, child_out)): it blocks until
\* the helper has written a line or closed its output
DlReadLine ==
    /\ pc = "dl_read"
    /\ dl.outq # <<>> \/ ~dl.out_open
    /\ IF dl.outq # <<>>
       THEN LET line == Head(dl.outq) IN
            IF LineIsBlank(line)
            THEN dl' = [dl EXCEPT !.outq = Tail(@)] /\ pc' = "dl_check"
            ELSE /\ dl' = [dl EXCEPT !.outq = Tail(@),
                                     !.found_get = @ \/ LineIsGet(line)]
                 /\ pc' = pc
       ELSE dl' = dl /\ pc' = "dl_check"
    /\ UNCHANGED <<tmp, result, stage, dlFrame>>

\* if (!found_get) { result = error(...); goto cleanup; }
\* fprintf(child_in, "get %s %s\n\n", uri, file)
DlCheck ==
    /\ pc = "dl_check"
    /\ IF ~dl.found_get
       THEN dl' = [dl EXCEPT !.result = -1]
       ELSE dl' = [dl EXCEPT !.inbuf = Append(@, GetCmd(uri, TempPath)),
                             !.sent = Append(@, GetCmd(uri, TempPath))]
    /\ pc' = "dl_cleanup"
    /\ UNCHANGED <<tmp, result, stage, dlFrame>>

\* cleanup: if (child_in) fclose(child_in)
DlCloseIn ==
    /\ pc = "dl_cleanup"
    /\ IF dl.child_in = "open"
       THEN dl' = [dl EXCEPT !.pipe = @ \o dl.inbuf, !.inbuf = <<>>,
                             !.child_in = "closed", !.in_fd = FALSE]
       ELSE dl' = dl
    /\ pc' = "dl_finish"
    /\ UNCHANGED <<tmp, result, stage, dlFrame>>

\* if (finish_command(&cp)) return 1;
\* if (child_out) fclose(child_out); return result;
DlFinish ==
    /\ pc = "dl_finish"
    /\ dl.hpc = "exited"
    /\ LET f == AfterFinishCommand(dl.hstatus, dl.result) IN
        DlReturn([dl EXCEPT !.child_out =
                      IF f.close_out /\ @ = "open" THEN "closed" ELSE @],
                 f.ret)
    /\ UNCHANGED <<tmp, dlFrame>>

----------------------------------------------------------------------------
(* The helper, git-remote-https *)

helperFrame == <<pc, uri, refs, config, result, tr, attempts,
                 stage, others, ghostVars, listVars>>

\* the helper reads "capabilities" and answers its lines
HelperCapabilities ==
    /\ dl.hpc = "wait"
    /\ dl.pipe # <<>>
    /\ Head(dl.pipe).cmd = "capabilities"
    /\ \E adv \in AdvSeqs :
        dl' = [dl EXCEPT !.pipe = Tail(@), !.outq = @ \o adv,
                         !.hsent = @ \o adv]
    /\ UNCHANGED <<tmp, resource, helperFrame>>

\* the helper reads "get <uri> <path>" and downloads the uri to the path,
\* or fails and exits
HelperGet ==
    /\ dl.hpc = "wait"
    /\ dl.pipe # <<>>
    /\ Head(dl.pipe).cmd = "get"
    /\ \E ok \in BOOLEAN, r \in Resources :
        /\ ok \/ r.refs = <<>>
        /\ IF ok /\ r.kind # "missing"
           THEN /\ tmp' = "full"
                /\ resource' = r
                /\ dl' = [dl EXCEPT !.pipe = Tail(@)]
           ELSE /\ tmp' = IF r.kind = "missing" THEN tmp ELSE "partial"
                /\ resource' = [r EXCEPT !.unpack_ok = FALSE]
                /\ dl' = [dl EXCEPT !.pipe = Tail(@), !.hpc = "exited",
                                    !.hstatus = 1, !.out_open = FALSE]
    /\ UNCHANGED helperFrame

\* the helper reads end-of-stream on its input and exits
HelperEof ==
    /\ dl.hpc = "wait"
    /\ dl.pipe = <<>>
    /\ ~dl.in_fd
    /\ dl' = [dl EXCEPT !.hpc = "exited", !.hstatus = 0, !.out_open = FALSE]
    /\ UNCHANGED <<tmp, resource, helperFrame>>

\* the helper fails on its own (no network, bad uri) and exits
HelperCrash ==
    /\ dl.hpc = "wait"
    /\ dl' = [dl EXCEPT !.hpc = "exited", !.hstatus = 1, !.out_open = FALSE]
    /\ UNCHANGED <<tmp, resource, helperFrame>>

----------------------------------------------------------------------------
(* fetch_bundle_uri after the copy, and unbundle_from_file *)

\* if ((result = !is_bundle(filename.buf, 0))) goto cleanup;
IsBundleStep ==
    /\ pc = "is_bundle"
    /\ LET res == IF is_bundle(tmp, resource) THEN 0 ELSE 1 IN
        /\ result' = res
        /\ pc' = AfterIsBundle(res)
        /\ stage' = IF res # 0 THEN "not_bundle" ELSE stage
    /\ UNCHANGED <<uri, resource, tmp, refs, config, dl, tr, attempts,
                   others, ghostVars, listVars>>

\* unbundle_from_file: read_bundle_header, then result = unbundle(...)
\* (-1, an error(), when the unpack fails)
Unbundle ==
    /\ pc = "unbundle"
    /\ IF ~is_bundle(tmp, resource)
       THEN /\ result' = 1
            /\ pc' = AfterUnbundleFromFile(1)
            /\ stage' = "ingest"
            /\ tr' = tr
       ELSE LET rc == IF resource.unpack_ok THEN 0 ELSE -1 IN
            /\ tr' = [tr EXCEPT !.rc = rc, !.idx = 1, !.ran = TRUE]
            /\ pc' = AfterUnbundle(rc)
            /\ UNCHANGED <<result, stage>>
    /\ UNCHANGED <<uri, resource, tmp, refs, config, dl, attempts, others,
                   ghostVars, listVars>>

\* for_each_string_list_item: if (!skip_prefix(refname->string,
\* "refs/heads/", &branch_name)) continue;
TranslateSkip ==
    /\ pc = "translate"
    /\ tr.idx <= Len(resource.refs)
    /\ ~HasPrefix(resource.refs[tr.idx].name, RefsHeads)
    /\ tr' = [tr EXCEPT !.idx = @ + 1]
    /\ UNCHANGED <<pc, uri, resource, tmp, refs, config, result, dl,
                   attempts, stage, others, ghostVars, listVars>>

\* strbuf_setlen, strbuf_addstr(&bundle_ref, branch_name);
\* has_old = !read_ref(bundle_ref.buf, &old_oid)
TranslateReadRef ==
    /\ pc = "translate"
    /\ tr.idx <= Len(resource.refs)
    /\ HasPrefix(resource.refs[tr.idx].name, RefsHeads)
    /\ LET branch_name == AfterPrefix(resource.refs[tr.idx].name, RefsHeads)
           bundle_ref == Concat(bundle_ref_prefix, branch_name)
           rr == read_ref(refs, bundle_ref)
       IN  tr' = [tr EXCEPT !.bundle_ref = bundle_ref,
                            !.has_old = (rr.ret = 0),
                            !.old_oid = IF rr.ret = 0 THEN rr.oid ELSE @]
    /\ pc' = "update_ref"
    /\ UNCHANGED <<uri, resource, tmp, refs, config, result, dl, attempts,
                   stage, others, ghostVars, listVars>>

\* update_ref("fetched bundle", bundle_ref.buf, oid,
\*            has_old ? &old_oid : NULL, ..., UPDATE_REFS_MSG_ON_ERR);
\* its return value is not looked at
UpdateRef ==
    /\ pc = "update_ref"
    /\ \E storeOk \in BOOLEAN :
        LET item == resource.refs[tr.idx]
            oid == new_oid_arg(item, tr.has_old, tr.old_oid)
            u == update_ref(refs, tr.bundle_ref, oid,
                            old_oid_arg(tr.has_old, tr.old_oid),
                            onerr_arg, storeOk)
        IN  /\ refs' = u.refs
            /\ attempts' = Append(attempts,
                    [src |-> item.name, name |-> tr.bundle_ref,
                     oid |-> item.oid, ok |-> (u.ret = 0),
                     seen |-> IF tr.has_old THEN tr.old_oid ELSE NoOid,
                     cur |-> refs[tr.bundle_ref], rc |-> tr.rc])
            /\ pc' = IF u.died THEN "dead" ELSE "translate"
    /\ tr' = [tr EXCEPT !.idx = @ + 1]
    /\ UNCHANGED <<uri, resource, tmp, config, result, dl, stage, others,
                   ghostVars, listVars>>

\* bundle_header_release(&header); return result;
TranslateDone ==
    /\ pc = "translate"
    /\ tr.idx > Len(resource.refs)
    /\ result' = tr.rc
    /\ pc' = AfterUnbundleFromFile(tr.rc)
    /\ stage' = IF tr.rc # 0 THEN "ingest" ELSE stage
    /\ tr' = [TrInit EXCEPT !.rc = tr.rc, !.ran = TRUE]
    /\ UNCHANGED <<uri, resource, tmp, refs, config, dl, attempts,
                   others, ghostVars, listVars>>

\* git_config_set_multivar_gently("log.excludedecoration", ...)
ConfigSet ==
    /\ pc = "config"
    /\ config' = ConfigUpsert(config)
    /\ stage' = IF stage = "none" THEN "ok" ELSE stage
    /\ pc' = "cleanup"
    /\ UNCHANGED <<uri, resource, tmp, refs, result, dl, tr, attempts,
                   others, ghostVars, listVars>>

\* cleanup: unlink(filename.buf); strbuf_release(&filename); return result;
Cleanup ==
    /\ pc = "cleanup"
    /\ tmp' = unlink(tmp)
    /\ pc' = "done"
    /\ UNCHANGED <<uri, resource, refs, config, result, dl, tr, attempts,
                   stage, others, ghostVars, listVars>>

\* another process writes a ref of the refs/bundles/ namespace while the
\* loop of unbundle_from_file runs: between two turns any ref, between the
\* read_ref and the update_ref of a turn the ref of the turn (a write to
\* another ref there is the same write made between two turns)
OtherWriter ==
    /\ pc \in {"translate", "update_ref"}
    /\ others < MaxOther
    /\ \E n \in BundleRefNames, v \in Oids \cup {NoOid} :
        /\ pc = "update_ref" => n = tr.bundle_ref
        /\ v # refs[n]
        /\ refs' = [refs EXCEPT ![n] = v]
    /\ others' = others + 1
    /\ UNCHANGED <<pc, uri, resource, tmp, config, result, dl, tr, attempts,
                   stage, ghostVars, listVars>>

----------------------------------------------------------------------------
(* Specifications *)

NextList == Update

\* the bundle list on its own: no fetch is made
InitListOnly ==
    /\ Init
    /\ refs[<<"refs", "bundles", "main">>] = NoOid
    /\ config[<<"refs", "bundle", "">>] = 0

SpecList == InitListOnly /\ [][NextList]_vars

Next ==
    \/ CallFetch
    \/ Return
    \/ Mkstemp
    \/ UnlinkTmp
    \/ CopyHttp
    \/ CopyFile
    \/ DlStart
    \/ DlFdopenIn
    \/ DlFdopenOut
    \/ DlCaps
    \/ DlReadLine
    \/ DlCheck
    \/ DlCloseIn
    \/ DlFinish
    \/ CopyReturn
    \/ HelperCapabilities
    \/ HelperGet
    \/ HelperEof
    \/ HelperCrash
    \/ IsBundleStep
    \/ Unbundle
    \/ TranslateSkip
    \/ TranslateReadRef
    \/ UpdateRef
    \/ TranslateDone
    \/ ConfigSet
    \/ Cleanup
    \/ OtherWriter

Spec == Init /\ [][Next]_vars

----------------------------------------------------------------------------
(* The claims *)

\* the ref the spec maps refs/heads/<name> to: refs/bundles/<name>
ExpectedDest(name) == <<"refs", "bundles">> \o SubSeq(name, 3, Len(name))

IsHead(name) == Len(name) >= 3 /\ name[1] = "refs" /\ name[2] = "heads"

InBundles(name) == Len(name) >= 3 /\ name[1] = "refs" /\ name[2] = "bundles"

ExcludeValue == <<"refs", "bundle", "">>

\* C1: whenever fetch_bundle_uri has returned, with any result, there is no
\* file at the temp path.
C1_TempFileGoneOnReturn ==
    pc = "done" => tmp = "absent"

\* a call that returned not-a-bundle after its copy had made the file
C1_Witness ==
    /\ pc = "done"
    /\ stage = "not_bundle"
    /\ resource.kind = "garbage"
    /\ result # 0

C3_OneExcludeEntry ==
    (pc = "done" /\ result = 0) =>
        /\ config[ExcludeValue] = 1
        /\ \A v \in ConfigValues : v # ExcludeValue => config[v] = config0[v]
        /\ prevOkConfig.set => config = prevOkConfig.cfg

\* the second successful fetch of a run has returned
C3_Witness ==
    /\ pc = "done"
    /\ result = 0
    /\ stage = "ok"
    /\ prevOkConfig.set
    /\ fetches = 2

DlPcs ==
    {"dl_start", "dl_fdopen_in", "dl_fdopen_out", "dl_caps", "dl_read",
     "dl_check", "dl_cleanup", "dl_finish", "dl_ret"}

\* "get" is among the lines before the first blank line
GetAdvertised(h) ==
    \E i \in 1..Len(h) : h[i] = "get" /\ \A j \in 1..(i - 1) : h[j] # ""

\* C4: in download_https_uri_to_file, as long as none of the lines the helper
\* has sent before its first blank line is "get", no get command has been
\* written, and if the call returns it returns a non-zero result.
C4_NoGetWithoutCapability ==
    (pc \in DlPcs /\ ~GetAdvertised(dl.hsent)) =>
        /\ \A i \in 1..Len(dl.sent) : dl.sent[i].cmd # "get"
        /\ dl.returned => dl.ret # 0

\* the call returns "insufficient capabilities" from a helper that answered,
\* without "get", and exited with status 0
C4_Witness ==
    /\ pc = "dl_ret"
    /\ dl.hsent # <<>>
    /\ ~GetAdvertised(dl.hsent)
    /\ dl.hstatus = 0
    /\ dl.hpc = "exited"
    /\ dl.ret = -1

\* C5: when fetch_bundle_uri has returned after a failure of the copy (the
\* transport) or of is_bundle, the ref store and the configuration are what
\* they were when it was called, and update_ref was not called.
C5_EarlyFailureChangesNothing ==
    (pc = "done" /\ stage \in {"transport", "not_bundle"}) =>
        /\ refs = refs0
        /\ config = config0
        /\ attempts = <<>>

\* a fetch that failed for insufficient capabilities, in a repository whose
\* configuration has no exclusion entry yet
C5_Witness ==
    /\ pc = "done"
    /\ stage = "transport"
    /\ result = -1
    /\ config0[ExcludeValue] = 0

\* C6, as claimed: when unbundle fails inside unbundle_from_file (and nobody
\* else wrote the ref store), the ref store is what it was before the call.
C6_Claim ==
    (pc = "done" /\ tr.ran /\ tr.rc # 0 /\ others = 0) => refs = refs0

HeadsOf(s) == SelectSeq(s, LAMBDA r : IsHead(r.name))

C8_Claim ==
    \A i \in 1..Len(attempts) :
        attempts[i].ok => attempts[i].cur = attempts[i].seen

\* C9: no step of fetch_bundle_uri changes a ref outside refs/bundles/, and
\* update_ref is called only for declared refs that begin with refs/heads/.
C9_OnlyBundlesNamespaceWritten ==
    /\ [][others' <= others =>
            \A n \in RefNames : ~InBundles(n) => refs'[n] = refs[n]]_vars
    /\ [](\A i \in 1..Len(attempts) : IsHead(attempts[i].src))

\* a successful fetch of a bundle that declares a tag and a branch, in a
\* repository that has refs under refs/heads/ and refs/tags/
C9_Witness ==
    /\ pc = "done"
    /\ result = 0
    /\ \E i \in 1..Len(resource.refs) : ~IsHead(resource.refs[i].name)
    /\ \E k \in 1..Len(attempts) : attempts[k].ok
    /\ refs[<<"refs", "heads", "main">>] = "Y"
    /\ refs[<<"refs", "tags", "v1">>] = "Y"

\* C10: whenever bundle_list_update returns 1 (Unrecognized), version, mode
\* and the descriptors with their uris are what they were before the call.
C10_RejectedLeavesListUnchanged ==
    lastResult = 1 =>
        /\ list.version = prevList.version
        /\ list.mode = prevList.mode
        /\ list.bundles = prevList.bundles

\* a rejected call on a list that already holds a descriptor and a mode
\* other than the default
C10_Witness ==
    /\ lastResult = 1
    /\ lastKey = <<"bundle", "list", "version">>
    /\ lastValue = <<"2">>
    /\ prevList.mode = BUNDLE_MODE_ANY
    /\ Len(prevList.bundles) > 0

\* what an observer of the list sees: version, mode, and through
\* for_all_bundles_in_list the descriptors (ids and uris), in no order
Observed(l) ==
    [version |-> l.version, mode |-> l.mode,
     bundles |-> for_all_bundles_in_list(l)]

WithId(l, id) == {i \in 1..Len(l.bundles) : l.bundles[i].id = id}

\* C11: after any sequence of bundle_list_update calls, for every descriptor
\* id (an id other than the reserved "list") that received a bundle.<id>.uri
\* pair, the list holds exactly one descriptor of that id, and its uri is the
\* value of the latest such pair.
C11_LastUriWins ==
    \A id \in UriKeyIds :
        lastUri[id] # NULL =>
            /\ Cardinality(WithId(list, id)) = 1
            /\ \A i \in WithId(list, id) : list.bundles[i].uri = lastUri[id]

\* a uri pair has just replaced another uri of the same descriptor, and the
\* list holds another descriptor
C11_Witness ==
    /\ lastKey = <<"bundle", "b1", "uri">>
    /\ lastResult = 0
    /\ \E i \in WithId(prevList, "b1") :
          prevList.bundles[i].uri \notin {NULL, lastValue}
    /\ WithId(list, "b2") # {}

\* key is bundle.<id>.<field> with <id> other than "list" and <field> other
\* than "uri"
IsOtherFieldKey(key) ==
    /\ Len(key) >= 3
    /\ key[1] = "bundle"
    /\ key[2] # "list"
    /\ Tail(Tail(key)) # <<"uri">>

\* C12, as claimed: a call with a key bundle.<id>.<field>, <id> not "list"
\* and <field> not "uri", returns 0 and leaves what is observed of the list
\* (version, mode, descriptors and their uris) as it was.
C12_Original ==
    IsOtherFieldKey(lastKey) =>
        /\ lastResult = 0
        /\ Observed(list) = Observed(prevList)

\* C12, amended: such a call returns 0 and leaves version, mode and every
\* descriptor the list held as they were; when the list held no descriptor
\* of <id>, it now holds one more, of that id and without a uri.
C12_OtherFieldOnlyCreates ==
    IsOtherFieldKey(lastKey) =>
        /\ lastResult = 0
        /\ list.version = prevList.version
        /\ list.mode = prevList.mode
        /\ for_all_bundles_in_list(list) =
              IF WithId(prevList, lastKey[2]) # {}
              THEN for_all_bundles_in_list(prevList)
              ELSE for_all_bundles_in_list(prevList)
                      \cup {[id |-> lastKey[2], uri |-> NULL]}

\* an unknown field of an id the list did not hold, applied to a list that
\* holds another descriptor
C12_Witness ==
    /\ lastKey = <<"bundle", "b1", "hint">>
    /\ lastResult = 0
    /\ WithId(prevList, "b1") = {}
    /\ WithId(prevList, "b2") # {}
    /\ WithId(list, "b1") # {}

\* C13: bundle_list_update commutes across keys and is idempotent per key.
\* With (k1, v1) the pair of the latest call and any pair (k2, v2), k1 # k2:
\* applying (k2, v2) after it gives the list (version, mode, descriptor ids
\* and uris) that applying (k2, v2) first and (k1, v1) second gives, and each
\* pair returns the same value in both orders; and applying (k1, v1) once
\* more gives the list as it is.
C13_CommutativeIdempotent ==
    lastResult # -1 =>
        /\ \A k2 \in Keys, v2 \in Values :
              k2 # lastKey =>
                LET second == bundle_list_update(k2, v2, list)
                    first == bundle_list_update(k2, v2, prevList)
                    then == bundle_list_update(lastKey, lastValue, first.list)
                IN  /\ Observed(second.list) = Observed(then.list)
                    /\ second.result = first.result
                    /\ then.result = lastResult
        /\ LET again == bundle_list_update(lastKey, lastValue, list)
           IN  /\ Observed(again.list) = Observed(list)
               /\ again.result = lastResult

\* the latest call set the uri of a descriptor that an unknown field had
\* created, in a list that holds another descriptor and mode any: pairs on
\* the same id, on another id and on the list commute with it
C13_Witness ==
    /\ lastKey = <<"bundle", "b1", "uri">>
    /\ lastResult = 0
    /\ \E i \in WithId(prevList, "b1") : prevList.bundles[i].uri = NULL
    /\ WithId(list, "b2") # {}
    /\ list.mode = BUNDLE_MODE_ANY

\* C14: in every reachable list the ids of the descriptors are pairwise
\* distinct and none is "list".
C14_IdsUniqueNeverList ==
    /\ \A i, j \in 1..Len(list.bundles) :
          list.bundles[i].id = list.bundles[j].id => i = j
    /\ \A i \in 1..Len(list.bundles) : list.bundles[i].id # "list"

\* bundle.list.uri has been applied to a list that holds two descriptors,
\* one of which had its uri set
C14_Witness ==
    /\ lastKey = <<"bundle", "list", "uri">>
    /\ lastResult = 1
    /\ WithId(list, "b1") # {}
    /\ WithId(list, "b2") # {}
    /\ \E i \in WithId(list, "b1") : list.bundles[i].uri # NULL

\* C15: when the helper has exited with a non-zero status,
\* download_https_uri_to_file returns a non-zero value, whatever went before,
\* and fetch_bundle_uri then goes to its cleanup: no is_bundle, no unbundle,
\* no update_ref, no change of the ref store or of the configuration.
C15_HelperFailureIsTransportFailure ==
    /\ (pc = "dl_ret" /\ dl.hstatus # 0) => dl.ret # 0
    /\ (pc \notin DlPcs /\ dl.hstatus # 0) =>
        /\ pc \in {"cleanup", "done"}
        /\ result # 0
        /\ stage = "transport"
        /\ ~tr.ran
        /\ attempts = <<>>
        /\ refs = refs0
        /\ config = config0

\* the helper advertised get, was sent the get command, wrote the whole
\* bundle to the temp path and then exited with a non-zero status: the fetch
\* is at its cleanup with the file not looked at
C15_Witness ==
    /\ pc = "cleanup"
    /\ dl.hstatus # 0
    /\ tmp = "full"
    /\ resource.kind = "bundle"
    /\ resource.refs # <<>>
    /\ result = 1

GetsSent(d) == {i \in 1..Len(d.sent) : d.sent[i].cmd = "get"}

\* the order of the exchange: "capabilities" is written and flushed before
\* the first read; a get command is written after the read loop has ended,
\* at most once; the request stream is not open when the helper is waited for
ExchangeInOrder ==
    /\ pc = "dl_read" =>
        /\ dl.sent # <<>>
        /\ dl.sent[1] = Capabilities
        /\ dl.inbuf = <<>>
    /\ Cardinality(GetsSent(dl)) <= 1
    /\ GetsSent(dl) # {} =>
        /\ pc \in {"dl_cleanup", "dl_finish", "dl_ret"}
        /\ dl.found_get
    /\ pc \in {"dl_finish", "dl_ret"} => dl.child_in # "open"

\* the helper has read the "capabilities" request
HelperAnswered(d) ==
    /\ d.sent # <<>>
    /\ d.pipe = <<>> \/ Head(d.pipe).cmd # "capabilities"

\* the helper of C16: its answer to "capabilities" ends with a blank line,
\* and it has not exited other than with status 0
HelperBehaves(d) ==
    /\ HelperAnswered(d) => (d.hsent # <<>> /\ d.hsent[Len(d.hsent)] = "")
    /\ d.hstatus = 0

\* the call waits for a line of the helper, or for the helper to exit
CallBlocked ==
    \/ pc = "dl_read" /\ dl.outq = <<>> /\ dl.out_open
    \/ pc = "dl_finish" /\ dl.hpc # "exited"

\* the helper waits for input: nothing to read, and its input is not at
\* end-of-stream
HelperBlocked(d) == d.hpc = "wait" /\ d.pipe = <<>> /\ d.in_fd

\* C16, as claimed: the exchange is in order in every execution, and with a
\* helper that answers capabilities with a blank-line-terminated list and
\* exits at end-of-stream on its input, the call and the helper are never
\* both blocked waiting for each other.
C16_Claim ==
    /\ ExchangeInOrder
    /\ HelperBehaves(dl) => ~(CallBlocked /\ HelperBlocked(dl))

\* C17: from the return of find_temp_filename until the transport makes the
\* file (copy_file, or the helper serving the get command), there is no file
\* at the temp path.
C17_NoFileUntilTransport ==
    /\ pc = "copy" => tmp = "absent"
    /\ (pc \in DlPcs /\ GetsSent(dl) = {}) => tmp = "absent"

\* the temp name of a second fetch has been handed to the transport, after
\* a first fetch that succeeded
C17_Witness ==
    /\ pc = "copy"
    /\ fetches = 2
    /\ prevOkConfig.set
    /\ tmp = "absent"

\* C18, as claimed: whenever download_https_uri_to_file returns after the
\* response stream was opened, the stream has been closed, and it is closed
\* only after the wait for the helper.
C18_Claim ==
    /\ (pc = "dl_ret" /\ dl.child_out # "NULL") => dl.child_out = "closed"
    /\ dl.child_out = "closed" => pc = "dl_ret"

\* C19, as claimed: when the call waits for the helper to exit, the write end
\* of the helper's input has been closed.
C19_Claim ==
    pc = "dl_finish" => ~dl.in_fd

\* C20, as claimed: when fetch_bundle_uri has returned 0, the name of every
\* ref it wrote begins with the value it stored under log.excludedecoration.
C20_Claim ==
    (pc = "done" /\ result = 0) =>
        /\ config[ExcludeValue] > 0
        /\ \A k \in 1..Len(attempts) :
              attempts[k].ok => HasPrefix(attempts[k].name, ExcludeValue)

====
